---------------------------- MODULE Spec2Model ----------------------------
(***************************************************************************)
(* A model of the dnsmasq_exporter collector (package collector):         *)
(* Collector.Collect with its two errgroup goroutines (the stats queries  *)
(* and the lease file), queryDnsmasq, parseLease and readLeaseFile.       *)
(*                                                                         *)
(* Strings that the code parses are sequences of one-character strings,   *)
(* numbers that may exceed 32 bits are sequences of decimal digits (most  *)
(* significant first, no leading zero), so that strconv.ParseUint's 64-bit *)
(* range and the float64 conversion keep their real widths.               *)
(***************************************************************************)
EXTENDS Naturals, Integers, Sequences, FiniteSets, TLC

VARIABLES
    cfg,           \* Collector.cfg: [ExposeLeases]
    file,          \* the lease file at cfg.LeasesPath, as the file system presents it
    scrapes,       \* number of Collect invocations started so far
    pcMain,        \* position of the goroutine that runs Collect
    egWg,          \* errgroup.Group: goroutines started and not yet finished
    egErr,         \* errgroup.Group: the first non-nil error returned by a goroutine
    collectResult, \* how the last Collect ended
    logged,        \* the errors log.Printf'ed by Collect in this scrape
    pcS,           \* position of the stats goroutine
    qi,            \* index into questionBinds of the name being queried
    in,            \* the reply being decoded by queryDnsmasq
    ai,            \* index of the answer being decoded
    si,            \* index of the text string being decoded (servers.bind.)
    half,          \* 1 when the queries sample of the string is sent, failed pending
    retS,          \* what the stats goroutine's function returned
    requests,      \* the messages handed to DnsClient.Exchange in this scrape
    got,           \* the outcomes of the exchanges of this scrape, in order
    pcL,           \* position of the lease goroutine
    activeLeases,  \* the lease goroutine's activeLeases
    li,            \* index of the lease whose sample is sent next
    retL,          \* what the lease goroutine's function returned
    sink,          \* the samples received from ch in this scrape, in order
    pureIn,        \* input of a function applied on its own
    pureOut,       \* its result
    described,     \* what the calls of Describe sent on their channel, one set a call
    steady,        \* TRUE when the daemon, the lease file and the configuration
                   \* are at every scrape what they were at the scrape before
    prev           \* the scrape before this one: its exchanges and its samples

vars == <<cfg, file, scrapes, pcMain, egWg, egErr, collectResult, logged,
          pcS, qi, in, ai, si, half, retS, requests, got,
          pcL, activeLeases, li, retL, sink, pureIn, pureOut, described,
          steady, prev>>

None == "none"
Nil == "nil"

-----------------------------------------------------------------------------
(* Sequences *)

RECURSIVE Concat(_)
Concat(ss) == IF ss = <<>> THEN <<>> ELSE Head(ss) \o Concat(Tail(ss))

IsPrefix(s, t) == Len(s) <= Len(t) /\ SubSeq(t, 1, Len(s)) = s

SeqMap(F(_), s) == [i \in 1..Len(s) |-> F(s[i])]

\* F of the value of x: x is worked out once, however often F uses it
Apply1(F(_), x) == CHOOSE r \in {F(v) : v \in {x}} : TRUE

-----------------------------------------------------------------------------
(* Natural numbers of any size: sequences of decimal digits *)

DigitChars == <<"0", "1", "2", "3", "4", "5", "6", "7", "8", "9">>

IsDigitChar(c) == \E d \in 1..10 : DigitChars[d] = c

DigitVal(c) == (CHOOSE d \in 1..10 : DigitChars[d] = c) - 1

RECURSIVE Norm(_)
Norm(d) ==
    Apply1(LAMBDA n : IF Len(n) > 1 /\ n[1] = 0 THEN Norm(Tail(n)) ELSE n, d)

RECURSIVE NatToDigits(_)
NatToDigits(n) == IF n < 10 THEN <<n>> ELSE NatToDigits(n \div 10) \o <<n % 10>>

RECURSIVE LexLess(_, _)
LexLess(a, b) ==
    IF a = <<>> THEN FALSE
    ELSE IF a[1] # b[1] THEN a[1] < b[1]
    ELSE LexLess(Tail(a), Tail(b))

\* a < b, for normalised a and b
BigLess(a, b) ==
    Apply1(LAMBDA x : Len(x) < Len(b) \/ (Len(x) = Len(b) /\ LexLess(x, b)), a)

RECURSIVE MulAcc(_, _, _, _)
MulAcc(d, i, k, carry) ==
    IF i = 0 THEN (IF carry = 0 THEN <<>> ELSE NatToDigits(carry))
    ELSE LET p == d[i] * k + carry
         IN  MulAcc(d, i - 1, k, p \div 10) \o <<p % 10>>

\* d * k, for a small k
MulSmall(d, k) == Apply1(LAMBDA n : Norm(MulAcc(n, Len(n), k, 0)), d)

RECURSIVE AddAcc(_, _, _)
AddAcc(d, i, carry) ==
    IF i = 0 THEN (IF carry = 0 THEN <<>> ELSE NatToDigits(carry))
    ELSE LET p == d[i] + carry
         IN  AddAcc(d, i - 1, p \div 10) \o <<p % 10>>

\* d + k, for a small k
AddSmall(d, k) == Apply1(LAMBDA n : Norm(AddAcc(n, Len(n), k)), d)

RECURSIVE HalfAcc(_, _, _)
HalfAcc(d, i, r) ==
    IF i > Len(d) THEN <<>>
    ELSE LET p == r * 10 + d[i]
         IN  <<p \div 2>> \o HalfAcc(d, i + 1, p % 2)

\* d div 2 and d mod 2
Half(d) == Apply1(LAMBDA n : Norm(HalfAcc(n, 1, 0)), d)
IsOdd(d) == d[Len(d)] % 2 = 1

\* d * 2^n, ten bits at a time
RECURSIVE MulPow2(_, _)
MulPow2(d, n) ==
    IF n = 0 THEN d
    ELSE IF n >= 10 THEN Apply1(LAMBDA m : MulPow2(m, n - 10), MulSmall(d, 1024))
    ELSE Apply1(LAMBDA m : MulPow2(m, n - 1), MulSmall(d, 2))

Pow2(n) == MulPow2(<<1>>, n)


-----------------------------------------------------------------------------
(* Numbers of the Go runtime *)

\* strconv.ParseUint(arr[0], 10, 64): the bit size of lease.expiry
UintBits == 64

\* float64: the width of the significand, implicit bit included
MantissaBits == 53

TwoPowUint == Pow2(UintBits)
TwoPowMant == Pow2(MantissaBits)

\* The nearest float64 (ties to even) of the natural number d: low bits are
\* dropped until the significand fits; guard is the last bit dropped, sticky
\* tells whether an earlier dropped bit was set, k counts the dropped bits.
RECURSIVE RoundShift(_, _, _, _)
RoundShift(d, guard, sticky, k) ==
    IF BigLess(d, TwoPowMant)
    THEN LET up == guard = 1 /\ (sticky \/ IsOdd(d))
         IN  MulPow2(IF up THEN AddSmall(d, 1) ELSE d, k)
    ELSE Apply1(LAMBDA h : RoundShift(h, IF IsOdd(d) THEN 1 ELSE 0,
                                      sticky \/ guard = 1, k + 1),
                Half(d))

\* float64(x) of an unsigned integer x
Float64OfNat(d) == Apply1(LAMBDA n : RoundShift(n, 0, FALSE, 0), d)

\* a float64 with an integral value is [neg, mag]
Float(neg, mag) == [neg |-> neg, mag |-> mag]

-----------------------------------------------------------------------------
(* Strings: sequences of one-character strings *)

StrOfDigits(d) == [i \in 1..Len(d) |-> DigitChars[d[i] + 1]]

\* unicode.IsSpace, on the characters a line can hold
IsSpace(c) == c \in {" ", "\t", "\r"}

\* strings.Fields: the maximal runs of non-space characters, in order
RECURSIVE FieldsFrom(_, _, _)
FieldsFrom(s, i, cur) ==
    IF i > Len(s) THEN (IF cur = <<>> THEN <<>> ELSE <<cur>>)
    ELSE IF IsSpace(s[i])
         THEN (IF cur = <<>> THEN <<>> ELSE <<cur>>) \o FieldsFrom(s, i + 1, <<>>)
         ELSE FieldsFrom(s, i + 1, Append(cur, s[i]))

Fields(s) == Apply1(LAMBDA str : FieldsFrom(str, 1, <<>>), s)

IsDigits(s) == Len(s) > 0 /\ \A i \in 1..Len(s) : IsDigitChar(s[i])

DigitsOf(s) == Apply1(LAMBDA str : Norm([i \in 1..Len(str) |-> DigitVal(str[i])]), s)

\* strconv.ParseUint(s, 10, 64): decimal digits only (no sign, no underscore),
\* ErrSyntax otherwise, ErrRange from 2^64 on
ParseUint(s) ==
    IF ~IsDigits(s) THEN [err |-> "ErrSyntax", val |-> <<0>>]
    ELSE Apply1(LAMBDA n : IF ~BigLess(n, TwoPowUint)
                           THEN [err |-> "ErrRange", val |-> <<0>>]
                           ELSE [err |-> Nil, val |-> n],
                DigitsOf(s))

\* strconv.ParseFloat(s, 64) on strings of decimal digits, '+', '-' and
\* characters that belong to no number syntax: an optional sign and decimal
\* digits, rounded to the nearest float64
ParseFloat(s) ==
    LET signed == Len(s) > 0 /\ s[1] \in {"+", "-"}
        body   == IF signed THEN Tail(s) ELSE s
    IN  IF ~IsDigits(body) THEN [err |-> "ErrSyntax", val |-> Float(FALSE, <<0>>)]
        ELSE [err |-> Nil,
              val |-> Float(signed /\ s[1] = "-", Float64OfNat(DigitsOf(body)))]

-----------------------------------------------------------------------------
(* The lease file *)

\* the lease struct
Lease(expiry, mac, ip, name, id) ==
    [expiry |-> expiry, macAddress |-> mac, ipAddress |-> ip,
     computerName |-> name, clientId |-> id]

\* the number of fields of a lease line
LeaseFields == 5

\* parseLease(line): [err, lease]
parseLease(line) ==
    Apply1(LAMBDA arr :
               IF Len(arr) # LeaseFields
               THEN [err |-> "ErrLeaseFields", lease |-> None]
               ELSE Apply1(LAMBDA expires :
                               IF expires.err # Nil
                               THEN [err |-> expires.err, lease |-> None]
                               ELSE [err |-> Nil,
                                     lease |-> Lease(expires.val, arr[2], arr[3],
                                                     arr[4], arr[5])],
                           ParseUint(arr[1])),
           Fields(line))

\* The file as os.Open and bufio.Scanner present it: open is Nil, "ENOENT"
\* (os.IsNotExist) or another error; lines are the lines the scanner yields;
\* scanErr tells whether scanner.Err() is non-nil after them (a failed read,
\* or bufio.ErrTooLong on a line past the scanner's buffer).
File(open, lines, scanErr) == [open |-> open, lines |-> lines, scanErr |-> scanErr]


\* ScanLeases, were the loop to end at the first malformed line
RECURSIVE ScanLeases_StopAtBad(_, _)
ScanLeases_StopAtBad(lines, i) ==
    IF i > Len(lines) THEN [leases |-> <<>>, log |-> <<>>]
    ELSE LET p    == parseLease(lines[i])
             rest == ScanLeases_StopAtBad(lines, i + 1)
         IN  IF p.err = Nil
             THEN [leases |-> <<p.lease>> \o rest.leases, log |-> rest.log]
             ELSE [leases |-> <<>>,
                   log |-> <<[i |-> i, line |-> lines[i], err |-> p.err]>>]

\* the scan loop of readLeaseFile over lines[i..]: the leases appended and
\* the diagnostics logged
RECURSIVE ScanLeases(_, _)
ScanLeases(lines, i) ==
    IF i > Len(lines) THEN [leases |-> <<>>, log |-> <<>>]
    ELSE Apply1(LAMBDA p :
             Apply1(LAMBDA rest :
                 IF p.err = Nil
                 THEN [leases |-> <<p.lease>> \o rest.leases, log |-> rest.log]
                 ELSE [leases |-> rest.leases,
                       log |-> <<[i |-> i, line |-> lines[i], err |-> p.err]>>
                               \o rest.log],
                 ScanLeases(lines, i + 1)),
             parseLease(lines[i]))


\* readLeaseFile, were a missing file an error like any other
readLeaseFile_NotExistIsError(f) ==
    IF f.open # Nil THEN [leases |-> None, err |-> f.open, log |-> <<>>]
    ELSE Apply1(LAMBDA r :
                    IF f.scanErr
                    THEN [leases |-> None, err |-> "ErrScan", log |-> r.log]
                    ELSE [leases |-> r.leases, err |-> Nil, log |-> r.log],
                ScanLeases(f.lines, 1))

\* readLeaseFile, were scanner.Err() not looked at
readLeaseFile_IgnoreScanErr(f) ==
    IF f.open = "ENOENT" THEN [leases |-> <<>>, err |-> Nil, log |-> <<>>]
    ELSE IF f.open # Nil THEN [leases |-> None, err |-> f.open, log |-> <<>>]
    ELSE Apply1(LAMBDA r : [leases |-> r.leases, err |-> Nil, log |-> r.log],
                ScanLeases(f.lines, 1))

\* readLeaseFile(path): [leases, err, log]; leases is None for Go's nil slice
readLeaseFile(f) ==
    IF f.open = "ENOENT" THEN [leases |-> <<>>, err |-> Nil, log |-> <<>>]
    ELSE IF f.open # Nil THEN [leases |-> None, err |-> f.open, log |-> <<>>]
    ELSE Apply1(LAMBDA r :
                    IF f.scanErr
                    THEN [leases |-> None, err |-> "ErrScan", log |-> r.log]
                    ELSE [leases |-> r.leases, err |-> Nil, log |-> r.log],
                ScanLeases(f.lines, 1))

-----------------------------------------------------------------------------
(* The lease file as the legacy exporter (dnsmasq.go) reads it *)

\* the scan loop of the legacy readLeaseFile over lines[i..]: it returns at
\* the first line that parseLease rejects. parseLease is the same function in
\* both files.
RECURSIVE legacyScanLeases(_, _)
legacyScanLeases(lines, i) ==
    IF i > Len(lines) THEN [leases |-> <<>>, err |-> Nil]
    ELSE Apply1(LAMBDA p :
             IF p.err # Nil THEN [leases |-> None, err |-> p.err]
             ELSE Apply1(LAMBDA rest :
                      IF rest.err # Nil THEN rest
                      ELSE [leases |-> <<p.lease>> \o rest.leases, err |-> Nil],
                      legacyScanLeases(lines, i + 1)),
             parseLease(lines[i]))

\* the legacy readLeaseFile, were it to leave out the lines it cannot parse
legacyReadLeaseFile_Skip(f) ==
    [leases |-> readLeaseFile(f).leases, err |-> readLeaseFile(f).err]

\* the legacy readLeaseFile(path): [leases, err]
legacyReadLeaseFile(f) ==
    IF f.open = "ENOENT" THEN [leases |-> <<>>, err |-> Nil]
    ELSE IF f.open # Nil THEN [leases |-> None, err |-> f.open]
    ELSE Apply1(LAMBDA r :
                    IF r.err # Nil THEN [leases |-> None, err |-> r.err]
                    ELSE IF f.scanErr THEN [leases |-> None, err |-> "ErrScan"]
                    ELSE [leases |-> r.leases, err |-> Nil],
                legacyScanLeases(f.lines, 1))

-----------------------------------------------------------------------------

(* Metric descriptors and samples *)

\* questionBinds, in the order Collect queries them
questionBinds ==
    <<"cachesize.bind.", "insertions.bind.", "evictions.bind.", "misses.bind.",
      "hits.bind.", "auth.bind.", "servers.bind.">>

\* floatMetrics, were the descriptors of misses.bind. and hits.bind. in each
\* other's place
floatMetrics_HitsForMisses ==
    [n \in {"cachesize.bind.", "insertions.bind.", "evictions.bind.",
            "misses.bind.", "hits.bind.", "auth.bind."} |->
        CASE n = "cachesize.bind."  -> "dnsmasq_cachesize"
          [] n = "insertions.bind." -> "dnsmasq_insertions"
          [] n = "evictions.bind."  -> "dnsmasq_evictions"
          [] n = "misses.bind."     -> "dnsmasq_hits"
          [] n = "hits.bind."       -> "dnsmasq_misses"
          [] n = "auth.bind."       -> "dnsmasq_auth"]

\* floatMetrics: stats DNS record name -> descriptor
floatMetrics ==
    [n \in {"cachesize.bind.", "insertions.bind.", "evictions.bind.",
            "misses.bind.", "hits.bind.", "auth.bind."} |->
        CASE n = "cachesize.bind."  -> "dnsmasq_cachesize"
          [] n = "insertions.bind." -> "dnsmasq_insertions"
          [] n = "evictions.bind."  -> "dnsmasq_evictions"
          [] n = "misses.bind."     -> "dnsmasq_misses"
          [] n = "hits.bind."       -> "dnsmasq_hits"
          [] n = "auth.bind."       -> "dnsmasq_auth"]

\* serversMetrics, were the two descriptors in each other's place
serversMetrics_Swapped ==
    [k \in {"queries", "queries_failed"} |->
        IF k = "queries" THEN "dnsmasq_servers_queries_failed"
                         ELSE "dnsmasq_servers_queries"]

\* serversMetrics
serversMetrics ==
    [k \in {"queries", "queries_failed"} |->
        IF k = "queries" THEN "dnsmasq_servers_queries"
                         ELSE "dnsmasq_servers_queries_failed"]

leaseMetrics == "dnsmasq_lease_expiry"
leases == "dnsmasq_leases"

\* prometheus.MustNewConstMetric(desc, GaugeValue, value, labelValues...)
MustNewConstMetric(desc, value, labelValues) ==
    [desc |-> desc, value |-> value, labels |-> labelValues]


\* question, were the class the default one
question_ClassINET(name) == [Name |-> name, Qtype |-> "TXT", Qclass |-> "INET"]

\* question(name)
question(name) == [Name |-> name, Qtype |-> "TXT", Qclass |-> "CHAOS"]

\* the dns.Msg queryDnsmasq builds (the random Id is left out)
QueryMsg(questionBind) ==
    [RecursionDesired |-> TRUE, Question |-> <<question(questionBind)>>]

-----------------------------------------------------------------------------
(* queryDnsmasq: decoding a reply *)

\* an answer record of a reply: rr is "TXT" for *dns.TXT
Answer(rr, name, txt) == [rr |-> rr, name |-> name, txt |-> txt]

\* the number of fields of a servers.bind. string
ServerFields == 3

Step(kind, err, sample, a, s, h) ==
    [kind |-> kind, err |-> err, sample |-> sample, ai |-> a, si |-> s, half |-> h]

\* the loop over in.Answer, were the queries sample of a string sent before
\* its failed field is parsed
DecodeStep_SendBeforeParse(answer, a, s, h) ==
    IF a > Len(answer) THEN Step("end", Nil, None, a, s, h)
    ELSE LET txt == answer[a]
         IN  IF txt.rr # "TXT" THEN Step("skip", Nil, None, a + 1, 1, 0)
             ELSE IF txt.name = "servers.bind."
             THEN IF s > Len(txt.txt) THEN Step("skip", Nil, None, a + 1, 1, 0)
                  ELSE LET arr           == Fields(txt.txt[s])
                           queries       == ParseFloat(arr[2])
                           failedQueries == ParseFloat(arr[3])
                       IN  IF Len(arr) # ServerFields
                           THEN Step("err", "ErrServersFields", None, a, s, h)
                           ELSE IF queries.err # Nil
                           THEN Step("err", queries.err, None, a, s, h)
                           ELSE IF h = 0
                           THEN Step("send", Nil,
                                     MustNewConstMetric(serversMetrics["queries"],
                                                        queries.val, <<arr[1]>>),
                                     a, s, 1)
                           ELSE IF failedQueries.err # Nil
                           THEN Step("err", failedQueries.err, None, a, s, h)
                           ELSE Step("send", Nil,
                                     MustNewConstMetric(serversMetrics["queries_failed"],
                                                        failedQueries.val, <<arr[1]>>),
                                     a, s + 1, 0)
             ELSE IF txt.name \notin DOMAIN floatMetrics
             THEN Step("skip", Nil, None, a + 1, 1, 0)
             ELSE IF Len(txt.txt) # 1
             THEN Step("err", "ErrReplies", None, a, s, h)
             ELSE LET f == ParseFloat(txt.txt[1])
                  IN  IF f.err # Nil THEN Step("err", f.err, None, a, s, h)
                      ELSE Step("send", Nil,
                                MustNewConstMetric(floatMetrics[txt.name], f.val, <<>>),
                                a + 1, 1, 0)

\* One step of the loop over in.Answer, at answer a, string s of it, with h = 1
\* when the queries sample of that string is already sent: "end" (the loop is
\* over), "skip" (continue with the next answer), "err" (return err) or "send"
\* (ch <- sample), and the position after the step.
DecodeStep(answer, a, s, h) ==
    IF a > Len(answer) THEN Step("end", Nil, None, a, s, h)
    ELSE LET txt == answer[a]
         IN  IF txt.rr # "TXT" THEN Step("skip", Nil, None, a + 1, 1, 0)
             ELSE IF txt.name = "servers.bind."
             THEN IF s > Len(txt.txt) THEN Step("skip", Nil, None, a + 1, 1, 0)
                  ELSE Apply1(LAMBDA arr :
                         IF Len(arr) # ServerFields
                         THEN Step("err", "ErrServersFields", None, a, s, h)
                         ELSE Apply1(LAMBDA queries :
                                IF queries.err # Nil
                                THEN Step("err", queries.err, None, a, s, h)
                                ELSE Apply1(LAMBDA failedQueries :
                                       IF failedQueries.err # Nil
                                       THEN Step("err", failedQueries.err, None, a, s, h)
                                       ELSE IF h = 0
                                       THEN Step("send", Nil,
                                                 MustNewConstMetric(
                                                     serversMetrics["queries"],
                                                     queries.val, <<arr[1]>>),
                                                 a, s, 1)
                                       ELSE Step("send", Nil,
                                                 MustNewConstMetric(
                                                     serversMetrics["queries_failed"],
                                                     failedQueries.val, <<arr[1]>>),
                                                 a, s + 1, 0),
                                       ParseFloat(arr[3])),
                                ParseFloat(arr[2])),
                         Fields(txt.txt[s]))
             ELSE IF txt.name \notin DOMAIN floatMetrics
             THEN Step("skip", Nil, None, a + 1, 1, 0)
             ELSE IF Len(txt.txt) # 1
             THEN Step("err", "ErrReplies", None, a, s, h)
             ELSE LET f == ParseFloat(txt.txt[1])
                  IN  IF f.err # Nil THEN Step("err", f.err, None, a, s, h)
                      ELSE Step("send", Nil,
                                MustNewConstMetric(floatMetrics[txt.name], f.val, <<>>),
                                a + 1, 1, 0)

-----------------------------------------------------------------------------
(* The environment: replies of the daemon and lease files *)

\* how many times Collect is invoked
MaxScrapes == 2

Join(fields, sep) ==
    Concat([i \in 1..Len(fields) |-> IF i = 1 THEN fields[i] ELSE sep \o fields[i]])

Sp == <<" ">>

N0 == <<"0">>
N2 == <<"2">>
N7 == <<"7">>
N10 == <<"1", "0">>
N666 == <<"6", "6", "6">>
NaN1 == <<"1", "x">>
Srv1 == <<"s", "1">>
Srv2 == <<"s", "2">>

Txt(name, strs) == Answer("TXT", name, strs)

\* the replies (in.Answer) the daemon may give to the question for name
StatReplies(name) ==
    CASE name = "cachesize.bind." ->
           { <<Txt(name, <<N666>>)>>,
             <<Txt(name, <<NaN1>>)>> }
      [] name = "auth.bind." ->
           { <<Txt(name, <<N0>>)>>,
             <<Answer("A", name, <<>>), Txt("version.bind.", <<N7>>),
               Txt("misses.bind.", <<N7>>), Txt(name, <<N7>>)>>,
             <<Txt(name, <<N0>>), Txt(name, <<>>)>>,
             <<Txt(name, <<N7, N7>>)>> }
      [] name = "servers.bind." ->
           { <<Txt(name, <<Join(<<Srv1, N10, N2>>, Sp)>>)>>,
             <<Txt(name, <<Join(<<Srv1, N10, N2>>, Sp), Join(<<Srv2, N0, N0>>, <<"\t", " ">>)>>)>>,
             <<Txt(name, <<Join(<<Srv1, N10, N2>>, Sp), Join(<<Srv1, N10, N2>>, Sp)>>)>>,
             <<Txt(name, <<Join(<<Srv1, N10>>, Sp)>>)>>,
             <<Txt(name, <<Join(<<Srv1, N10, N2>>, Sp), Join(<<Srv2, NaN1, N0>>, Sp)>>)>>,
             <<Txt(name, <<Join(<<Srv1, N10, NaN1>>, Sp)>>)>> }
      [] OTHER -> { <<Txt(name, <<N2>>)>> }

Mac1 == <<"m", "1">>
Mac2 == <<"m", "2">>
Ip1 == <<"i", "1">>
Ip2 == <<"i", "2">>
Host1 == <<"h", "1">>
Host2 == <<"h", "2">>
Star == <<"*">>

\* 2^53 + 1: the least expiry that is no float64
BigExpiry == StrOfDigits(AddSmall(TwoPowMant, 1))

LineGood1 == Join(<<N666, Mac1, Ip1, Host1, Star>>, Sp)
LineGood2 == Join(<<N0, Mac2, Ip2, Host2, Mac2>>, Sp)
LineShort == Join(<<N7, Mac1, Ip1, Host1>>, Sp)
LineNaN == Join(<<NaN1, Mac1, Ip1, Host1, Star>>, Sp)
LineBig == Join(<<BigExpiry, Mac1, Ip1, Host1, Star>>, Sp)

\* the lease files a scrape may find
LeaseFiles ==
    { File("ENOENT", <<>>, FALSE),
      File("EACCES", <<>>, FALSE),
      File(Nil, <<LineGood1, LineShort, LineGood2>>, FALSE),
      File(Nil, <<LineNaN, LineShort>>, FALSE),
      File(Nil, <<LineBig, LineBig>>, FALSE),
      File(Nil, <<LineGood1>>, TRUE),
      File(Nil, <<>>, TRUE) }

Configs == [ExposeLeases : BOOLEAN]

-----------------------------------------------------------------------------
(* Collector.Collect *)

mainVars == <<pcMain, egWg, egErr, collectResult, logged, scrapes>>
statsVars == <<pcS, qi, in, ai, si, half, retS, requests, got>>
leaseVars == <<pcL, activeLeases, li, retL>>
envVars == <<cfg, file, steady, prev>>
pureVars == <<pureIn, pureOut, described>>

\* a multiset of samples: how many times each sample is in s
SeqToBag(s) ==
    [m \in {s[i] : i \in 1..Len(s)} |-> Cardinality({i \in 1..Len(s) : s[i] = m})]

\* the state after New(cfg), in an environment that is steady or not
InitWith(st) ==
    /\ cfg \in Configs
    /\ file \in LeaseFiles
    /\ steady = st
    /\ prev = [got |-> <<>>, bag |-> SeqToBag(<<>>)]
    /\ described = {}
    /\ scrapes = 0
    /\ pcMain = "idle"
    /\ egWg = 0
    /\ egErr = Nil
    /\ collectResult = None
    /\ logged = <<>>
    /\ pcS = "off" /\ qi = 1 /\ in = <<>> /\ ai = 1 /\ si = 1 /\ half = 0
    /\ retS = None /\ requests = <<>> /\ got = <<>>
    /\ pcL = "off" /\ activeLeases = <<>> /\ li = 1 /\ retL = None
    /\ sink = <<>>
    /\ pureIn = None /\ pureOut = None

Init == InitWith(FALSE)


\* Collect is called, were the samples of the scrape before left in place
StartCollect_KeepSamples ==
    /\ pcMain \in {"idle", "returned"}
    /\ scrapes < MaxScrapes
    /\ cfg' \in (IF steady /\ scrapes > 0 THEN {cfg} ELSE Configs)
    /\ file' \in (IF steady /\ scrapes > 0 THEN {file} ELSE LeaseFiles)
    /\ prev' = IF steady /\ scrapes > 0
               THEN [got |-> got, bag |-> SeqToBag(sink)]
               ELSE prev
    /\ scrapes' = scrapes + 1
    /\ pcMain' = "go1"
    /\ egWg' = 0
    /\ egErr' = Nil
    /\ collectResult' = None
    /\ logged' = <<>>
    /\ pcS' = "off" /\ qi' = 1 /\ in' = <<>> /\ ai' = 1 /\ si' = 1 /\ half' = 0
    /\ retS' = None /\ requests' = <<>> /\ got' = <<>>
    /\ pcL' = "off" /\ activeLeases' = <<>> /\ li' = 1 /\ retL' = None
    /\ UNCHANGED <<sink, steady, pureVars>>

\* Collect is called, were the errgroup.Group a field of the Collector that
\* the scrapes share
StartCollect_KeepGroup ==
    /\ pcMain \in {"idle", "returned"}
    /\ scrapes < MaxScrapes
    /\ cfg' \in (IF steady /\ scrapes > 0 THEN {cfg} ELSE Configs)
    /\ file' \in (IF steady /\ scrapes > 0 THEN {file} ELSE LeaseFiles)
    /\ prev' = IF steady /\ scrapes > 0
               THEN [got |-> got, bag |-> SeqToBag(sink)]
               ELSE prev
    /\ scrapes' = scrapes + 1
    /\ pcMain' = "go1"
    /\ egWg' = 0
    /\ collectResult' = None
    /\ logged' = <<>>
    /\ pcS' = "off" /\ qi' = 1 /\ in' = <<>> /\ ai' = 1 /\ si' = 1 /\ half' = 0
    /\ retS' = None /\ requests' = <<>> /\ got' = <<>>
    /\ pcL' = "off" /\ activeLeases' = <<>> /\ li' = 1 /\ retL' = None
    /\ sink' = <<>>
    /\ UNCHANGED <<egErr, steady, pureVars>>

\* Collect is called: var eg errgroup.Group. The scrape finds the lease file
\* and the configuration as they are by now (the test sets c.cfg.ExposeLeases
\* and c.cfg.LeasesPath between two scrapes).
StartCollect ==
    /\ pcMain \in {"idle", "returned"}
    /\ scrapes < MaxScrapes
    /\ cfg' \in (IF steady /\ scrapes > 0 THEN {cfg} ELSE Configs)
    /\ file' \in (IF steady /\ scrapes > 0 THEN {file} ELSE LeaseFiles)
    /\ prev' = IF steady /\ scrapes > 0
               THEN [got |-> got, bag |-> SeqToBag(sink)]
               ELSE prev
    /\ scrapes' = scrapes + 1
    /\ pcMain' = "go1"
    /\ egWg' = 0
    /\ egErr' = Nil
    /\ collectResult' = None
    /\ logged' = <<>>
    /\ pcS' = "off" /\ qi' = 1 /\ in' = <<>> /\ ai' = 1 /\ si' = 1 /\ half' = 0
    /\ retS' = None /\ requests' = <<>> /\ got' = <<>>
    /\ pcL' = "off" /\ activeLeases' = <<>> /\ li' = 1 /\ retL' = None
    /\ sink' = <<>>
    /\ UNCHANGED <<steady, pureVars>>

\* eg.Go(stats function)
GoStats ==
    /\ pcMain = "go1"
    /\ pcMain' = "go2"
    /\ egWg' = egWg + 1
    /\ pcS' = "query"
    /\ UNCHANGED <<egErr, collectResult, logged, scrapes, qi, in, ai, si, half,
                   retS, requests, got, leaseVars, envVars, sink, pureVars>>

\* eg.Go(lease function)
GoLease ==
    /\ pcMain = "go2"
    /\ pcMain' = "wait"
    /\ egWg' = egWg + 1
    /\ pcL' = "read"
    /\ UNCHANGED <<egErr, collectResult, logged, scrapes, statsVars,
                   activeLeases, li, retL, envVars, sink, pureVars>>

\* errgroup: a goroutine's function returned err: the first non-nil error is
\* kept, the wait group is released
EgDone(err) ==
    /\ egErr' = IF err # Nil /\ egErr = Nil THEN err ELSE egErr
    /\ egWg' = egWg - 1


\* eg.Wait, were it to return at the first error
WaitDone_FirstError == egWg = 0 \/ egErr # Nil

\* eg.Wait, were the lease function started with a plain go statement and
\* not with eg.Go
WaitDone_StatsOnly == pcS = "done"

\* eg.Wait() returns once every goroutine started with eg.Go has returned
WaitDone == egWg = 0


\* Collect, were an error of the group to fail the scrape (log.Fatalf, a panic)
CollectReturn_FailOnError ==
    /\ pcMain = "wait"
    /\ egWg = 0
    /\ logged' = IF egErr # Nil THEN <<egErr>> ELSE <<>>
    /\ collectResult' = IF egErr # Nil THEN "failed" ELSE "ok"
    /\ pcMain' = "returned"
    /\ UNCHANGED <<egWg, egErr, scrapes, pcS, qi, in, ai, si, half, retS, requests,
                   got, pcL, activeLeases, li, retL, envVars, sink, pureVars>>

\* if err := eg.Wait(); err != nil { log.Printf(...) }, and Collect returns
\* Collect, were it to give up on a daemon that does not answer
CollectReturn_Deadline ==
    /\ pcMain = "wait"
    /\ (WaitDone \/ (pcS = "hung" /\ pcL = "done"))
    /\ logged' = IF egErr # Nil THEN <<egErr>> ELSE <<>>
    /\ collectResult' = "ok"
    /\ pcMain' = "returned"
    /\ UNCHANGED <<egWg, egErr, scrapes, statsVars, leaseVars, envVars, sink, pureVars>>

CollectReturn ==
    /\ pcMain = "wait"
    /\ WaitDone
    /\ logged' = IF egErr # Nil THEN <<egErr>> ELSE <<>>
    /\ collectResult' = "ok"
    /\ pcMain' = "returned"
    /\ UNCHANGED <<egWg, egErr, scrapes, statsVars, leaseVars, envVars, sink, pureVars>>

-----------------------------------------------------------------------------
(* The stats goroutine *)

\* the first queryDnsmasq builds its message and hands it to DnsClient.Exchange
StatsQuery ==
    /\ pcS = "query"
    /\ requests' = Append(requests, QueryMsg(questionBinds[qi]))
    /\ pcS' = "exchange"
    /\ UNCHANGED <<mainVars, qi, in, ai, si, half, retS, got, leaseVars, envVars,
                   sink, pureVars>>

\* the stats function returns err
StatsReturn(err) ==
    /\ retS' = err
    /\ pcS' = "done"
    /\ EgDone(err)

\* what Exchange may return for the qi-th name: anything the daemon can say,
\* in a steady environment what it returned at the scrape before
Repeats(outcome) ==
    (steady /\ scrapes > 1) => (qi <= Len(prev.got) /\ outcome = prev.got[qi])

\* Exchange returns an error: queryDnsmasq and the stats function return it
ExchangeError ==
    /\ pcS = "exchange"
    /\ Repeats([err |-> "ErrExchange", answer |-> <<>>])
    /\ got' = Append(got, [err |-> "ErrExchange", answer |-> <<>>])
    /\ StatsReturn("ErrExchange")
    /\ UNCHANGED <<pcMain, collectResult, logged, scrapes, qi, in, ai, si, half,
                   requests, leaseVars, envVars, sink, pureVars>>

\* Exchange returns a reply
ExchangeReply ==
    /\ pcS = "exchange"
    /\ \E answer \in StatReplies(questionBinds[qi]) :
          /\ Repeats([err |-> Nil, answer |-> answer])
          /\ got' = Append(got, [err |-> Nil, answer |-> answer])
          /\ in' = answer
    /\ ai' = 1 /\ si' = 1 /\ half' = 0
    /\ pcS' = "decode"
    /\ UNCHANGED <<mainVars, qi, retS, requests, leaseVars, envVars, sink, pureVars>>

Decoded == DecodeStep(in, ai, si, half)

\* an answer that is no TXT record or has an unknown name, or the end of a
\* servers.bind. answer's strings
DecodeSkip ==
    /\ pcS = "decode"
    /\ Decoded.kind = "skip"
    /\ ai' = Decoded.ai /\ si' = Decoded.si /\ half' = Decoded.half
    /\ UNCHANGED <<mainVars, pcS, qi, in, retS, requests, got, leaseVars, envVars,
                   sink, pureVars>>

\* ch <- prometheus.MustNewConstMetric(...)
DecodeSend ==
    /\ pcS = "decode"
    /\ Decoded.kind = "send"
    /\ sink' = Append(sink, Decoded.sample)
    /\ ai' = Decoded.ai /\ si' = Decoded.si /\ half' = Decoded.half
    /\ UNCHANGED <<mainVars, pcS, qi, in, retS, requests, got, leaseVars, envVars,
                   pureVars>>


\* a decode error, were the samples of the stats goroutine held back until the
\* scrape's replies are all decoded
DecodeError_Retract ==
    /\ pcS = "decode"
    /\ DecodeStep(in, ai, si, half).kind = "err"
    /\ retS' = DecodeStep(in, ai, si, half).err
    /\ pcS' = "done"
    /\ egErr' = IF egErr = Nil THEN DecodeStep(in, ai, si, half).err ELSE egErr
    /\ egWg' = egWg - 1
    /\ sink' = SelectSeq(sink, LAMBDA m : m.desc \in {leases, leaseMetrics})
    /\ UNCHANGED <<pcMain, collectResult, logged, scrapes, qi, in, ai, si, half,
                   requests, got, pcL, activeLeases, li, retL, envVars, pureVars>>

\* a decode error, were it noted and the loop over in.Answer to go on with the
\* next answer
DecodeError_Continue ==
    /\ pcS = "decode"
    /\ Decoded.kind = "err"
    /\ retS' = Decoded.err
    /\ egErr' = IF egErr = Nil THEN Decoded.err ELSE egErr
    /\ ai' = ai + 1 /\ si' = 1 /\ half' = 0
    /\ UNCHANGED <<pcMain, egWg, collectResult, logged, scrapes, pcS, qi, in,
                   requests, got, leaseVars, envVars, sink, pureVars>>

\* a decode error: queryDnsmasq and the stats function return it
DecodeError ==
    /\ pcS = "decode"
    /\ Decoded.kind = "err"
    /\ StatsReturn(Decoded.err)
    /\ UNCHANGED <<pcMain, collectResult, logged, scrapes, qi, in, ai, si, half,
                   requests, got, leaseVars, envVars, sink, pureVars>>

\* queryDnsmasq returns nil: the loop over questionBinds goes on, and
\* queryDnsmasq hands the next message to DnsClient.Exchange
NextQuestion ==
    /\ pcS = "decode"
    /\ Decoded.kind = "end"
    /\ qi < Len(questionBinds)
    /\ qi' = qi + 1
    /\ in' = <<>> /\ ai' = 1 /\ si' = 1 /\ half' = 0
    /\ requests' = Append(requests, QueryMsg(questionBinds[qi + 1]))
    /\ pcS' = "exchange"
    /\ UNCHANGED <<mainVars, retS, got, leaseVars, envVars, sink, pureVars>>

\* the loop over questionBinds is over: the stats function returns nil
StatsFinish ==
    /\ pcS = "decode"
    /\ Decoded.kind = "end"
    /\ qi = Len(questionBinds)
    /\ StatsReturn(Nil)
    /\ UNCHANGED <<pcMain, collectResult, logged, scrapes, qi, in, ai, si, half,
                   requests, got, leaseVars, envVars, sink, pureVars>>

-----------------------------------------------------------------------------
(* The lease goroutine *)

\* the lease function returns err
LeaseReturn(err) ==
    /\ retL' = err
    /\ pcL' = "done"
    /\ EgDone(err)

\* the lease function, were it to read the file once the stats function is done
LeaseRead_AfterStats ==
    /\ pcL = "read"
    /\ pcS = "done"
    /\ readLeaseFile(file).err = Nil
    /\ activeLeases' = readLeaseFile(file).leases
    /\ pcL' = "count"
    /\ UNCHANGED <<mainVars, statsVars, li, retL, envVars, sink, pureVars>>

\* activeLeases, err := readLeaseFile(c.cfg.LeasesPath), err == nil
LeaseRead ==
    /\ pcL = "read"
    /\ readLeaseFile(file).err = Nil
    /\ activeLeases' = readLeaseFile(file).leases
    /\ pcL' = "count"
    /\ UNCHANGED <<mainVars, statsVars, li, retL, envVars, sink, pureVars>>

\* readLeaseFile returned an error: the lease function returns it
LeaseReadError ==
    /\ pcL = "read"
    /\ readLeaseFile(file).err # Nil
    /\ LeaseReturn(readLeaseFile(file).err)
    /\ UNCHANGED <<pcMain, collectResult, logged, scrapes, statsVars,
                   activeLeases, li, envVars, sink, pureVars>>


\* the dnsmasq_leases sample, were the lines of the file counted
LeasesSample_AllLines(active) ==
    MustNewConstMetric(leases, Float(FALSE, Float64OfNat(NatToDigits(Len(file.lines)))), <<>>)

\* the dnsmasq_leases sample: float64(len(activeLeases))
LeasesSample(active) ==
    MustNewConstMetric(leases, Float(FALSE, Float64OfNat(NatToDigits(Len(active)))), <<>>)


\* the dnsmasq_lease_expiry sample, were two label values in each other's place
LeaseSample_SwappedLabels(activeLease) ==
    MustNewConstMetric(leaseMetrics, Float(FALSE, Float64OfNat(activeLease.expiry)),
                       <<activeLease.ipAddress, activeLease.macAddress,
                         activeLease.computerName, activeLease.clientId>>)

\* the dnsmasq_lease_expiry sample of a lease: float64(activeLease.expiry)
LeaseSample(activeLease) ==
    MustNewConstMetric(leaseMetrics, Float(FALSE, Float64OfNat(activeLease.expiry)),
                       <<activeLease.macAddress, activeLease.ipAddress,
                         activeLease.computerName, activeLease.clientId>>)

\* ch <- the dnsmasq_leases sample
LeaseSendCount ==
    /\ pcL = "count"
    /\ sink' = Append(sink, LeasesSample(activeLeases))
    /\ li' = 1
    /\ pcL' = "leases"
    /\ UNCHANGED <<mainVars, statsVars, activeLeases, retL, envVars, pureVars>>


\* the loop over activeLeases, were it to stop once the group has an error
MoreLeases_Cancelled == cfg.ExposeLeases /\ li <= Len(activeLeases) /\ egErr = Nil

\* the loop over activeLeases, were ExposeLeases not looked at
MoreLeases_Always == li <= Len(activeLeases)

\* if c.cfg.ExposeLeases: the loop over activeLeases goes on
MoreLeases == cfg.ExposeLeases /\ li <= Len(activeLeases)

\* the loop over activeLeases, were it to run from the last lease to the first
LeaseSendLease_Reverse ==
    /\ pcL = "leases"
    /\ MoreLeases
    /\ sink' = Append(sink, LeaseSample(activeLeases[Len(activeLeases) + 1 - li]))
    /\ li' = li + 1
    /\ UNCHANGED <<mainVars, statsVars, pcL, activeLeases, retL, envVars, pureVars>>

\* ch <- the dnsmasq_lease_expiry sample of activeLeases[li]
LeaseSendLease ==
    /\ pcL = "leases"
    /\ MoreLeases
    /\ sink' = Append(sink, LeaseSample(activeLeases[li]))
    /\ li' = li + 1
    /\ UNCHANGED <<mainVars, statsVars, pcL, activeLeases, retL, envVars, pureVars>>

\* the lease function returns nil
LeaseFinish ==
    /\ pcL = "leases"
    /\ ~MoreLeases
    /\ LeaseReturn(Nil)
    /\ UNCHANGED <<pcMain, collectResult, logged, scrapes, statsVars,
                   activeLeases, li, envVars, sink, pureVars>>

Next ==
    \/ StartCollect
    \/ GoStats
    \/ GoLease
    \/ CollectReturn
    \/ StatsQuery
    \/ ExchangeError
    \/ ExchangeReply
    \/ DecodeSkip
    \/ DecodeSend
    \/ DecodeError
    \/ NextQuestion
    \/ StatsFinish
    \/ LeaseRead
    \/ LeaseReadError
    \/ LeaseSendCount
    \/ LeaseSendLease
    \/ LeaseFinish

Spec == Init /\ [][Next]_vars

\* the scrapes of a collector whose environment does not change
InitSteady == InitWith(TRUE)

SpecSteady == InitSteady /\ [][Next]_vars

-----------------------------------------------------------------------------
(* The scrapes of a collector whose environment holds one subtask back *)

\* At a scrape of odd number the daemon lets its first reply wait until the
\* lease function has returned; at a scrape of even number the lease file is
\* not read until the stats function has returned.
DaemonStalled == scrapes % 2 = 1 /\ pcL # "done"
FileStalled == scrapes % 2 = 0 /\ pcS # "done"

\* the steps of the goroutine that runs Collect
MainTurn ==
    \/ GoStats
    \/ GoLease
    \/ CollectReturn

\* the steps of the stats goroutine
StatsTurn ==
    \/ StatsQuery
    \/ ~DaemonStalled /\ ExchangeError
    \/ ~DaemonStalled /\ ExchangeReply
    \/ DecodeSkip
    \/ DecodeSend
    \/ DecodeError
    \/ NextQuestion
    \/ StatsFinish

\* the steps of the lease goroutine
LeaseTurn ==
    \/ ~FileStalled /\ LeaseRead
    \/ ~FileStalled /\ LeaseReadError
    \/ LeaseSendCount
    \/ LeaseSendLease
    \/ LeaseFinish

NextTurns ==
    \/ StartCollect
    \/ MainTurn
    \/ StatsTurn
    \/ LeaseTurn

\* a goroutine that can run does run: the scheduler is fair, the sink takes
\* each sample, and what the environment does not hold back returns
SpecTurns ==
    /\ Init
    /\ [][NextTurns]_vars
    /\ WF_vars(MainTurn)
    /\ WF_vars(StatsTurn)
    /\ WF_vars(LeaseTurn)

-----------------------------------------------------------------------------

(* The scrapes of a collector whose daemon may never answer *)

\* DnsClient.Exchange does not return: queryDnsmasq stays in the call at
\* line 204, and with it the stats function
ExchangeHangs ==
    /\ pcS = "exchange"
    /\ pcS' = "hung"
    /\ UNCHANGED <<mainVars, qi, in, ai, si, half, retS, requests, got, leaseVars,
                   envVars, sink, pureVars>>

NextHang ==
    \/ NextTurns
    \/ ExchangeHangs

\* The environment of SpecTurns, with a daemon that may leave any exchange
\* without an answer. A goroutine that can run does run, the sink takes each
\* sample sent to it, and an exchange returns unless it is one that hangs.
SpecHang ==
    /\ Init
    /\ [][NextHang]_vars
    /\ WF_vars(MainTurn)
    /\ WF_vars(StatsTurn)
    /\ WF_vars(LeaseTurn)

-----------------------------------------------------------------------------

(* Collector.Describe *)

\* the values of a map
Values(m) == {m[k] : k \in DOMAIN m}

\* Describe, were the per-lease descriptor left out unless ExposeLeases is set
Describe_ByConfig ==
    /\ pcMain \in {"idle", "go1", "go2", "wait", "returned"}
    /\ described' = described \cup
                       { Values(floatMetrics) \cup Values(serversMetrics)
                         \cup {leases}
                         \cup (IF cfg.ExposeLeases THEN {leaseMetrics} ELSE {}) }
    /\ UNCHANGED <<mainVars, statsVars, leaseVars, envVars, sink, pureIn, pureOut>>

\* Describe, called by a registry at any time and any number of times: it
\* sends the descriptors of floatMetrics and of serversMetrics, each map in
\* the order its iteration takes, then leases and leaseMetrics
Describe ==
    /\ pcMain \in {"idle", "go1", "go2", "wait", "returned"}
    /\ described' = described \cup
                       { Values(floatMetrics) \cup Values(serversMetrics)
                         \cup {leases} \cup {leaseMetrics} }
    /\ UNCHANGED <<mainVars, statsVars, leaseVars, envVars, sink, pureIn, pureOut>>

NextDescribe ==
    \/ Next
    \/ Describe

\* the scrapes of a collector and the calls of Describe
SpecDescribe == Init /\ [][NextDescribe]_vars

-----------------------------------------------------------------------------

(* readLeaseFile applied on its own, to lease files of every shape *)

\* the longest lease file, in lines
MaxLines == 2

\* the most fields of a lease line
MaxFields == 6

FieldAt(i) == IF i = 1 THEN N7 ELSE <<"f">> \o StrOfDigits(NatToDigits(i))

FirstFields(n) == [i \in 1..n |-> FieldAt(i)]

\* expiry fields: numbers up to and past 2^53 and 2^64, and no numbers
ExpiryFields ==
    { N0, <<"0", "0", "7">>, BigExpiry,
      StrOfDigits(AddSmall(TwoPowMant, 3)),
      StrOfDigits(Float64OfNat(TwoPowMant)),
      <<"1", "8", "4", "4", "6", "7", "4", "4", "0", "7", "3", "7", "0", "9",
        "5", "5", "1", "6", "1", "5">>,
      StrOfDigits(TwoPowUint),
      NaN1, <<"-", "1">>, <<"+", "1">> }

PureLines ==
    { Join(<<e, Mac1, Ip1, Host1, Star>>, Sp) : e \in ExpiryFields }
    \cup { Join(FirstFields(n), Sp) : n \in 0..MaxFields }
    \cup { <<" ", "\t">> \o Join(FirstFields(LeaseFields), <<"\t", " ">>) \o <<" ">>,
           Join(FirstFields(LeaseFields - 1), Sp) \o <<" ", "\r">> }

RECURSIVE SeqsUpTo(_, _)
SeqsUpTo(S, n) ==
    IF n = 0 THEN { <<>> }
    ELSE SeqsUpTo(S, n - 1)
         \cup { Append(s, x) : s \in { t \in SeqsUpTo(S, n - 1) : Len(t) = n - 1 }, x \in S }

PureFiles ==
    { File("ENOENT", <<>>, FALSE), File("EACCES", <<>>, FALSE) }
    \cup { File(Nil, ls, e) : ls \in SeqsUpTo(PureLines, MaxLines), e \in BOOLEAN }

InitLease ==
    /\ cfg = [ExposeLeases |-> FALSE]
    /\ file = File("ENOENT", <<>>, FALSE)
    /\ steady = FALSE
    /\ prev = [got |-> <<>>, bag |-> SeqToBag(<<>>)]
    /\ described = {}
    /\ scrapes = 0
    /\ pcMain = "pure"
    /\ egWg = 0
    /\ egErr = Nil
    /\ collectResult = None
    /\ logged = <<>>
    /\ pcS = "off" /\ qi = 1 /\ in = <<>> /\ ai = 1 /\ si = 1 /\ half = 0
    /\ retS = None /\ requests = <<>> /\ got = <<>>
    /\ pcL = "off" /\ activeLeases = <<>> /\ li = 1 /\ retL = None
    /\ sink = <<>>
    /\ pureIn \in PureFiles
    /\ pureOut = None

\* activeLeases, err := readLeaseFile(path)
ApplyReadLeaseFile ==
    /\ pcMain = "pure"
    /\ pcMain' = "applied"
    /\ pureOut' = readLeaseFile(pureIn)
    /\ UNCHANGED <<egWg, egErr, collectResult, logged, scrapes, statsVars,
                   leaseVars, envVars, sink, pureIn, described>>

NextLease == ApplyReadLeaseFile

SpecLease == InitLease /\ [][NextLease]_vars

-----------------------------------------------------------------------------
(* The two readLeaseFile functions applied to the same lease file *)

\* readLeaseFile(path) of the collector and of the legacy exporter
ApplyBothReadLeaseFile ==
    /\ pcMain = "pure"
    /\ pcMain' = "appliedBoth"
    /\ pureOut' = [collector |-> readLeaseFile(pureIn),
                   legacy    |-> legacyReadLeaseFile(pureIn)]
    /\ UNCHANGED <<egWg, egErr, collectResult, logged, scrapes, statsVars,
                   leaseVars, envVars, sink, pureIn, described>>

NextLegacy == ApplyBothReadLeaseFile

SpecLegacy == InitLease /\ [][NextLegacy]_vars

-----------------------------------------------------------------------------

(* queryDnsmasq applied on its own, to replies of every shape *)

\* the loop over in.Answer, were it left at the first answer that is passed over
RECURSIVE DecodeFrom_StopAtSkip(_, _, _, _)
DecodeFrom_StopAtSkip(answer, a, s, h) ==
    LET st == DecodeStep(answer, a, s, h)
    IN  CASE st.kind = "end"  -> [samples |-> <<>>, err |-> Nil]
          [] st.kind = "skip" ->
               IF answer[a].rr = "TXT" /\ answer[a].name = "servers.bind."
               THEN DecodeFrom_StopAtSkip(answer, st.ai, st.si, st.half)
               ELSE [samples |-> <<>>, err |-> Nil]
          [] st.kind = "err"  -> [samples |-> <<>>, err |-> st.err]
          [] st.kind = "send" ->
               LET rest == DecodeFrom_StopAtSkip(answer, st.ai, st.si, st.half)
               IN  [samples |-> <<st.sample>> \o rest.samples, err |-> rest.err]

\* queryDnsmasq's loop over in.Answer, from answer a, string s of it on: the
\* samples sent on ch, in order, and the error returned
RECURSIVE DecodeFrom(_, _, _, _)
DecodeFrom(answer, a, s, h) ==
    LET st == DecodeStep(answer, a, s, h)
    IN  CASE st.kind = "end"  -> [samples |-> <<>>, err |-> Nil]
          [] st.kind = "skip" -> DecodeFrom(answer, st.ai, st.si, st.half)
          [] st.kind = "err"  -> [samples |-> <<>>, err |-> st.err]
          [] st.kind = "send" ->
               LET rest == DecodeFrom(answer, st.ai, st.si, st.half)
               IN  [samples |-> <<st.sample>> \o rest.samples, err |-> rest.err]

\* queryDnsmasq, given what c.Exchange returns
queryDnsmasq(reply) ==
    IF reply.err # Nil THEN [samples |-> <<>>, err |-> reply.err]
    ELSE DecodeFrom(reply.answer, 1, 1, 0)

\* the most answers of a reply
MaxAnswers == 2

\* the text of a scalar answer: numbers, plain, padded, signed, past 2^53, and
\* no number
ScalarTexts == { N0, <<"0", "0", "7">>, <<"-", "7">>, BigExpiry, NaN1 }

\* text strings of a servers.bind. answer: well formed (blank and tab
\* separated), two fields, a queries field or a failed field that is no number
SrvGood1 == Join(<<Srv1, N10, N2>>, Sp)
SrvGood2 == Join(<<Srv2, N0, BigExpiry>>, <<"\t", " ">>)
SrvShort == Join(<<Srv1, N10>>, Sp)
SrvNaNQueries == Join(<<Srv1, NaN1, N0>>, Sp)
SrvNaNFailed == Join(<<Srv1, N10, NaN1>>, Sp)

\* the text strings of a servers.bind. answer
ServerTexts ==
    { <<>>,
      <<SrvGood1>>,
      <<SrvGood1, SrvGood2>>,
      <<SrvGood2, SrvGood1, SrvGood1>>,
      <<SrvShort>>,
      <<SrvNaNQueries, SrvGood1>>,
      <<SrvGood1, SrvNaNQueries>>,
      <<SrvGood1, SrvNaNFailed>>,
      <<SrvGood2, SrvGood1, SrvShort>> }

QueryAnswers ==
    { Txt(n, <<t>>) : n \in DOMAIN floatMetrics, t \in ScalarTexts }
    \cup { Txt("misses.bind.", <<>>), Txt("misses.bind.", <<N7, N7>>) }
    \cup { Txt("servers.bind.", strs) : strs \in ServerTexts }
    \cup { Answer("A", "hits.bind.", <<N7>>),
           Answer("CNAME", "servers.bind.", <<Join(<<Srv1, N10>>, Sp)>>),
           Txt("version.bind.", <<N7>>),
           Txt("HITS.BIND.", <<N7>>) }

\* what c.Exchange may return
QueryReplies ==
    { [err |-> "ErrExchange", answer |-> <<>>] }
    \cup { [err |-> Nil, answer |-> as] : as \in SeqsUpTo(QueryAnswers, MaxAnswers) }

InitQuery ==
    /\ cfg = [ExposeLeases |-> FALSE]
    /\ file = File("ENOENT", <<>>, FALSE)
    /\ steady = FALSE
    /\ prev = [got |-> <<>>, bag |-> SeqToBag(<<>>)]
    /\ described = {}
    /\ scrapes = 0
    /\ pcMain = "pureQuery"
    /\ egWg = 0
    /\ egErr = Nil
    /\ collectResult = None
    /\ logged = <<>>
    /\ pcS = "off" /\ qi = 1 /\ in = <<>> /\ ai = 1 /\ si = 1 /\ half = 0
    /\ retS = None /\ requests = <<>> /\ got = <<>>
    /\ pcL = "off" /\ activeLeases = <<>> /\ li = 1 /\ retL = None
    /\ sink = <<>>
    /\ pureIn \in QueryReplies
    /\ pureOut = None

\* err := queryDnsmasq(questionBind, c, ch), with what it sent on ch
ApplyQueryDnsmasq ==
    /\ pcMain = "pureQuery"
    /\ pcMain' = "appliedQuery"
    /\ pureOut' = queryDnsmasq(pureIn)
    /\ UNCHANGED <<egWg, egErr, collectResult, logged, scrapes, statsVars,
                   leaseVars, envVars, sink, pureIn, described>>

NextQuery == ApplyQueryDnsmasq

SpecQuery == InitQuery /\ [][NextQuery]_vars

-----------------------------------------------------------------------------

(* What a scrape is expected to deliver, stated from its inputs *)

IsLeaseSample(m) == m.desc \in {"dnsmasq_leases", "dnsmasq_lease_expiry"}
IsStatsSample(m) == ~IsLeaseSample(m)
IsCountSample(m) == m.desc = "dnsmasq_leases"
IsExpirySample(m) == m.desc = "dnsmasq_lease_expiry"

\* the samples of the scrape that each subtask delivered, in order
LeasePart == SelectSeq(sink, IsLeaseSample)
StatsPart == SelectSeq(sink, IsStatsSample)
CountSamples == SelectSeq(sink, IsCountSample)
ExpirySamples == SelectSeq(sink, IsExpirySample)

\* a line with five fields whose first is an unsigned 64-bit decimal number
WellFormedLine(line) ==
    /\ Len(Fields(line)) = 5
    /\ IsDigits(Fields(line)[1])
    /\ BigLess(DigitsOf(Fields(line)[1]), TwoPowUint)

LeaseOfLine(line) ==
    LET f == Fields(line)
    IN  [expiry |-> DigitsOf(f[1]), macAddress |-> f[2], ipAddress |-> f[3],
         computerName |-> f[4], clientId |-> f[5]]

\* the leases of a file that is read to its end
ParsedLeases(f) == SeqMap(LeaseOfLine, SelectSeq(f.lines, WellFormedLine))

\* the file is absent, or opened and read to its end
ReadsWell(f) == f.open = "ENOENT" \/ (f.open = Nil /\ ~f.scanErr)

CountSampleOf(n) ==
    [desc |-> "dnsmasq_leases", value |-> [neg |-> FALSE, mag |-> NatToDigits(n)],
     labels |-> <<>>]

ExpirySampleOf(l, value) ==
    [desc |-> "dnsmasq_lease_expiry", value |-> [neg |-> FALSE, mag |-> value],
     labels |-> <<l.macAddress, l.ipAddress, l.computerName, l.clientId>>]

RoundedExpirySample(l) == ExpirySampleOf(l, Float64OfNat(l.expiry))
ExactExpirySample(l) == ExpirySampleOf(l, l.expiry)

\* what the lease subtask delivers for file f under configuration c
ExpectedLeasePart(f, c) ==
    IF ~ReadsWell(f) THEN <<>>
    ELSE LET ls == IF f.open = "ENOENT" THEN <<>> ELSE ParsedLeases(f)
         IN  <<CountSampleOf(Len(ls))>>
             \o (IF c.ExposeLeases THEN SeqMap(RoundedExpirySample, ls) ELSE <<>>)

ScalarDesc(name) ==
    CASE name = "cachesize.bind."  -> "dnsmasq_cachesize"
      [] name = "insertions.bind." -> "dnsmasq_insertions"
      [] name = "evictions.bind."  -> "dnsmasq_evictions"
      [] name = "misses.bind."     -> "dnsmasq_misses"
      [] name = "hits.bind."       -> "dnsmasq_hits"
      [] name = "auth.bind."       -> "dnsmasq_auth"
      [] OTHER                     -> None

GoodServerString(str) ==
    /\ Len(Fields(str)) = 3
    /\ ParseFloat(Fields(str)[2]).err = Nil
    /\ ParseFloat(Fields(str)[3]).err = Nil

ServerPair(str) ==
    LET f == Fields(str)
    IN  << [desc |-> "dnsmasq_servers_queries", value |-> ParseFloat(f[2]).val,
            labels |-> <<f[1]>>],
           [desc |-> "dnsmasq_servers_queries_failed", value |-> ParseFloat(f[3]).val,
            labels |-> <<f[1]>>] >>

\* the pairs of the strings before the first bad one; ok when there is none
RECURSIVE ServerStrings(_)
ServerStrings(strs) ==
    IF strs = <<>> THEN [ok |-> TRUE, samples |-> <<>>]
    ELSE IF ~GoodServerString(Head(strs)) THEN [ok |-> FALSE, samples |-> <<>>]
    ELSE LET rest == ServerStrings(Tail(strs))
         IN  [ok |-> rest.ok, samples |-> ServerPair(Head(strs)) \o rest.samples]

\* the samples of one answer; ok unless the answer is a decode error
AnswerSamples(a) ==
    IF a.rr # "TXT" THEN [ok |-> TRUE, samples |-> <<>>]
    ELSE IF a.name = "servers.bind." THEN ServerStrings(a.txt)
    ELSE IF ScalarDesc(a.name) = None THEN [ok |-> TRUE, samples |-> <<>>]
    ELSE IF Len(a.txt) = 1 /\ ParseFloat(a.txt[1]).err = Nil
    THEN [ok |-> TRUE,
          samples |-> <<[desc |-> ScalarDesc(a.name), value |-> ParseFloat(a.txt[1]).val,
                         labels |-> <<>>]>>]
    ELSE [ok |-> FALSE, samples |-> <<>>]

\* the samples of the answers before and within the first answer that fails
RECURSIVE AnswersSamples(_)
AnswersSamples(answers) ==
    IF answers = <<>> THEN [ok |-> TRUE, samples |-> <<>>]
    ELSE LET first == AnswerSamples(Head(answers))
             rest  == AnswersSamples(Tail(answers))
         IN  IF first.ok THEN [ok |-> rest.ok, samples |-> first.samples \o rest.samples]
             ELSE first

\* the samples decoded from the exchanges g of a scrape, up to its first error
RECURSIVE DecodedBeforeError(_)
DecodedBeforeError(g) ==
    IF g = <<>> THEN <<>>
    ELSE IF Head(g).err # Nil THEN <<>>
    ELSE LET first == AnswersSamples(Head(g).answer)
         IN  IF first.ok THEN first.samples \o DecodedBeforeError(Tail(g))
             ELSE first.samples

StatsFailed == retS \notin {None, Nil}
LeaseFailed == retL \notin {None, Nil}
Returned == pcMain = "returned"

-----------------------------------------------------------------------------
(* The claims *)

\* C1: Collect never turns a subtask error into a failed scrape: whatever the
\* two subtasks return, Collect returns normally, and within a scrape no step
\* (a failing subtask's and Collect's return included) takes away a sample
\* the sink has received.
C1_ScrapeNeverFails ==
    [][ /\ (pcMain' = "returned" => collectResult' = "ok")
        /\ (scrapes' = scrapes => IsPrefix(sink, sink')) ]_vars

\* both subtasks failed, the stats subtask after it had delivered samples
C1_Witness ==
    /\ Returned
    /\ collectResult = "ok"
    /\ retS = "ErrServersFields"
    /\ retL = "EACCES"
    /\ Len(sink) >= 6

\* C2, as stated: every invocation of Collect delivers exactly one
\* dnsmasq_leases sample, whose value is the number of well-formed lines.
C2_Original ==
    Returned =>
        /\ Len(CountSamples) = 1
        /\ CountSamples[1] =
              CountSampleOf(IF file.open = Nil
                            THEN Len(SelectSeq(file.lines, WellFormedLine)) ELSE 0)

\* C2, amended: a scrape whose lease file is absent, or is opened and read to
\* its end, delivers exactly one dnsmasq_leases sample, whose value is the
\* number of well-formed lines (0 for an absent file); a scrape whose lease
\* file fails to open for another reason, or fails while read, delivers none.
C2_LeasesCount ==
    Returned =>
        IF ReadsWell(file)
        THEN /\ Len(CountSamples) = 1
             /\ CountSamples[1] =
                   CountSampleOf(IF file.open = Nil
                                 THEN Len(SelectSeq(file.lines, WellFormedLine)) ELSE 0)
        ELSE CountSamples = <<>>

\* three lines, one of them malformed: the count is 2
C2_Witness ==
    /\ Returned
    /\ Len(file.lines) = 3
    /\ CountSamples = <<CountSampleOf(2)>>

\* C3: Collect returns only after both subtasks have returned, whichever
\* failed first.
C3_ReturnAfterBoth ==
    Returned => /\ pcS = "done" /\ retS # None
                /\ pcL = "done" /\ retL # None

\* the lease subtask failed first, the stats subtask failed later, and
\* Collect returned
C3_Witness ==
    /\ Returned
    /\ LeaseFailed /\ StatsFailed
    /\ egErr = retL
    /\ Len(got) = 7

\* C4: a returned scrape holds what each subtask delivers on its own inputs:
\* the lease samples are those of the lease file and the configuration also
\* when the stats subtask failed, and the stats samples are those decoded from
\* the replies also when the lease subtask failed.
C4_FailureIsolation ==
    Returned =>
        /\ LeasePart = ExpectedLeasePart(file, cfg)
        /\ StatsPart = DecodedBeforeError(got)

\* the stats subtask failed before the lease subtask had read its file, and
\* the lease subtask delivered its count and two leases
C4_Witness ==
    /\ Returned
    /\ StatsFailed /\ retL = Nil
    /\ egErr = retS
    /\ Len(LeasePart) = 3

C6_MissingFile ==
    pcL = "done" =>
        /\ (file.open = "ENOENT" =>
               /\ retL = Nil
               /\ activeLeases = <<>>
               /\ LeasePart = <<CountSampleOf(0)>>)
        /\ (file.open \notin {Nil, "ENOENT"} =>
               /\ retL = file.open
               /\ LeasePart = <<>>)

\* a scrape without lease file has returned
C6_Witness ==
    /\ Returned
    /\ file.open = "ENOENT"
    /\ retL = Nil
    /\ egErr = Nil
    /\ CountSamples = <<CountSampleOf(0)>>

C8_Original ==
    (Returned /\ cfg.ExposeLeases /\ retL = Nil) =>
        /\ ExpirySamples = SeqMap(ExactExpirySample, activeLeases)
        /\ CountSamples = <<CountSampleOf(Len(ExpirySamples))>>

\* C8, amended: with ExposeLeases true each parsed lease yields, in file
\* order, one dnsmasq_lease_expiry sample labelled with its MAC address, IP
\* address, host name and client identifier, whose value is the expiry
\* converted to float64: the expiry itself when it is at most 2^53, the
\* nearest float64 otherwise. The number of these samples is the value of the
\* dnsmasq_leases sample.
C8_LeasesExposed ==
    (Returned /\ cfg.ExposeLeases /\ retL = Nil) =>
        /\ file.open = Nil => activeLeases = ParsedLeases(file)
        /\ ExpirySamples = SeqMap(RoundedExpirySample, activeLeases)
        /\ \A i \in 1..Len(activeLeases) :
              ~BigLess(TwoPowMant, activeLeases[i].expiry) =>
                  ExpirySamples[i] = ExactExpirySample(activeLeases[i])
        /\ CountSamples = <<CountSampleOf(Len(ExpirySamples))>>

\* two leases with different labels and expiries were exposed
C8_Witness ==
    /\ Returned
    /\ cfg.ExposeLeases
    /\ Len(ExpirySamples) = 2
    /\ ExpirySamples[1] # ExpirySamples[2]
    /\ ExpirySamples[1].value.mag = <<6, 6, 6>>

\* C9: once the stats subtask has failed, the sink holds every sample decoded
\* from the replies before the error, and goes on holding them; with a
\* servers.bind. string of 2 fields these are the scalar samples of the scrape.
C9_DecodeAsFarAsPossible ==
    StatsFailed =>
        /\ StatsPart = DecodedBeforeError(got)
        /\ (retS = "ErrServersFields" =>
               IsPrefix(DecodedBeforeError(SubSeq(got, 1, Len(got) - 1)), StatsPart))

\* a servers.bind. string of 2 fields after six decoded scalars
C9_Witness ==
    /\ Returned
    /\ retS = "ErrServersFields"
    /\ Len(StatsPart) = 6

\* C10, as stated: a scrape sends one request, which carries the seven
\* questions.
C10_Original ==
    Returned =>
        requests = << [RecursionDesired |-> TRUE,
                       Question |-> [i \in 1..7 |->
                           [Name |-> questionBinds[i], Qtype |-> "TXT",
                            Qclass |-> "CHAOS"]]] >>

StatNames ==
    <<"cachesize.bind.", "insertions.bind.", "evictions.bind.", "misses.bind.",
      "hits.bind.", "auth.bind.", "servers.bind.">>

\* C10, amended: a scrape sends one request per statistic name, in the fixed
\* order cachesize, insertions, evictions, misses, hits, auth, servers, each
\* carrying that one question with class CHAOS, type TXT and recursion
\* requested; it sends all seven unless an exchange or a decoding fails, and
\* none after the failure.
C10_OneRequestPerName ==
    /\ Len(requests) <= 7
    /\ \A i \in 1..Len(requests) :
          requests[i] = [RecursionDesired |-> TRUE,
                         Question |-> << [Name |-> StatNames[i], Qtype |-> "TXT",
                                          Qclass |-> "CHAOS"] >>]
    /\ (Returned => Len(requests) = Len(got))
    /\ (Returned /\ retS = Nil => Len(requests) = 7)
    /\ (Returned /\ StatsFailed => got[Len(got)].err # Nil
                                   \/ ~AnswersSamples(got[Len(got)].answer).ok)

\* a scrape without error has sent its seven requests
C10_Witness ==
    /\ Returned
    /\ retS = Nil
    /\ Len(requests) = 7

-----------------------------------------------------------------------------
(* C11 *)

\* C11: two consecutive invocations of Collect with the same daemon replies,
\* the same lease file and the same configuration deliver the same multiset
\* of samples: when the second of them has returned, the samples it
\* delivered are, sample for sample and count for count, those the first
\* delivered.
C11_Idempotent ==
    (steady /\ scrapes > 1 /\ Returned) => SeqToBag(sink) = prev.bag

\* a second scrape has returned after a first with the same inputs; it
\* delivered the same sample twice (a server named in two strings), lease
\* samples and scalar samples
C11_Witness ==
    /\ steady /\ scrapes = 2 /\ Returned
    /\ \E m \in DOMAIN prev.bag : prev.bag[m] = 2
    /\ Len(LeasePart) >= 2
    /\ Len(StatsPart) >= 8

-----------------------------------------------------------------------------
(* C12, C13 *)

AppliedQuery == pcMain = "appliedQuery"

\* a text that is a number: an optional sign and decimal digits
Unsigned(str) == IF str # <<>> /\ str[1] \in {"+", "-"} THEN Tail(str) ELSE str

IsNumeric(str) ==
    /\ Unsigned(str) # <<>>
    /\ \A i \in 1..Len(Unsigned(str)) :
          Unsigned(str)[i] \in {"0", "1", "2", "3", "4", "5", "6", "7", "8", "9"}

\* the float64 a numeric text stands for
NumberOf(str) ==
    [neg |-> str[1] = "-", mag |-> Float64OfNat(DigitsOf(Unsigned(str)))]

\* a TXT answer with one of the six scalar names and exactly one numeric string
IsScalarAnswer(a) ==
    /\ a.rr = "TXT"
    /\ ScalarDesc(a.name) # None
    /\ Len(a.txt) = 1
    /\ IsNumeric(a.txt[1])

ScalarSample(a) ==
    [desc |-> ScalarDesc(a.name), value |-> NumberOf(a.txt[1]), labels |-> <<>>]

\* C12: for each of the six scalar names, a TXT answer with that name and
\* exactly one numeric text string yields one unlabeled sample of the
\* descriptor mapped to that name, whose value is the parsed number: a reply
\* made of such answers yields exactly their samples, one per answer, and no
\* error.
C12_ScalarSample ==
    (/\ AppliedQuery
     /\ pureIn.err = Nil
     /\ \A i \in 1..Len(pureIn.answer) : IsScalarAnswer(pureIn.answer[i]))
    => /\ pureOut.err = Nil
       /\ pureOut.samples = SeqMap(ScalarSample, pureIn.answer)

\* hits.bind. "-7" and auth.bind. "9007199254740993" have yielded -7 and 2^53
C12_Witness ==
    /\ AppliedQuery
    /\ pureIn.err = Nil
    /\ pureIn.answer = <<Txt("hits.bind.", <<<<"-", "7">>>>),
                         Txt("auth.bind.", <<BigExpiry>>)>>
    /\ pureOut.samples =
         << [desc |-> "dnsmasq_hits", value |-> [neg |-> TRUE, mag |-> <<7>>],
             labels |-> <<>>],
            [desc |-> "dnsmasq_auth",
             value |-> [neg |-> FALSE,
                        mag |-> <<9, 0, 0, 7, 1, 9, 9, 2, 5, 4, 7, 4, 0, 9, 9, 2>>],
             labels |-> <<>>] >>

\* a servers.bind. answer whose strings all have three fields, the second and
\* the third numeric
IsServersAnswer(a) ==
    /\ a.rr = "TXT"
    /\ a.name = "servers.bind."
    /\ \A i \in 1..Len(a.txt) :
          /\ Len(Fields(a.txt[i])) = 3
          /\ IsNumeric(Fields(a.txt[i])[2])
          /\ IsNumeric(Fields(a.txt[i])[3])

\* server address, queries, failed: the two samples of a string
PairOf(str) ==
    << [desc |-> "dnsmasq_servers_queries", value |-> NumberOf(Fields(str)[2]),
        labels |-> <<Fields(str)[1]>>],
       [desc |-> "dnsmasq_servers_queries_failed", value |-> NumberOf(Fields(str)[3]),
        labels |-> <<Fields(str)[1]>>] >>

PairsOf(a) == Concat([i \in 1..Len(a.txt) |-> PairOf(a.txt[i])])

\* C13: each text string of a servers.bind. answer with the three fields
\* server, queries, failed yields exactly two samples labeled with the
\* server: dnsmasq_servers_queries with value queries, then
\* dnsmasq_servers_queries_failed with value failed; several strings yield one
\* pair per string, in string order.
C13_ServerPairs ==
    (/\ AppliedQuery
     /\ pureIn.err = Nil
     /\ \A i \in 1..Len(pureIn.answer) : IsServersAnswer(pureIn.answer[i]))
    => /\ pureOut.err = Nil
       /\ pureOut.samples =
            Concat([i \in 1..Len(pureIn.answer) |-> PairsOf(pureIn.answer[i])])

\* "s1 10 2" and "s2 <tab> 0 <tab> 9007199254740993" have yielded two pairs
C13_Witness ==
    /\ AppliedQuery
    /\ pureIn.err = Nil
    /\ pureIn.answer = <<Txt("servers.bind.",
                             <<Join(<<Srv1, N10, N2>>, Sp),
                               Join(<<Srv2, N0, BigExpiry>>, <<"\t", " ">>)>>)>>
    /\ pureOut.samples =
         << [desc |-> "dnsmasq_servers_queries",
             value |-> [neg |-> FALSE, mag |-> <<1, 0>>], labels |-> <<Srv1>>],
            [desc |-> "dnsmasq_servers_queries_failed",
             value |-> [neg |-> FALSE, mag |-> <<2>>], labels |-> <<Srv1>>],
            [desc |-> "dnsmasq_servers_queries",
             value |-> [neg |-> FALSE, mag |-> <<0>>], labels |-> <<Srv2>>],
            [desc |-> "dnsmasq_servers_queries_failed",
             value |-> [neg |-> FALSE,
                        mag |-> <<9, 0, 0, 7, 1, 9, 9, 2, 5, 4, 7, 4, 0, 9, 9, 2>>],
             labels |-> <<Srv2>>] >>

-----------------------------------------------------------------------------
(* C14 *)

\* C14: every call of Describe emits every metric descriptor: the six scalar
\* descriptors, the two per-server descriptors, dnsmasq_leases and
\* dnsmasq_lease_expiry, whatever the configuration (ExposeLeases = false
\* included) and whether or not a scrape has run, has failed or has delivered
\* samples: Collect does not change the set.
C14_DescribeAll ==
    \A ds \in described :
        ds = { "dnsmasq_cachesize", "dnsmasq_insertions", "dnsmasq_evictions",
               "dnsmasq_misses", "dnsmasq_hits", "dnsmasq_auth",
               "dnsmasq_servers_queries", "dnsmasq_servers_queries_failed",
               "dnsmasq_leases", "dnsmasq_lease_expiry" }

\* Describe was called, and a scrape has returned that had ExposeLeases =
\* false, delivered no sample and lost both subtasks
C14_Witness ==
    /\ described # {}
    /\ \A ds \in described : Cardinality(ds) = 10
    /\ scrapes = 1 /\ Returned
    /\ ~cfg.ExposeLeases
    /\ LeaseFailed /\ StatsFailed
    /\ sink = <<>>

-----------------------------------------------------------------------------
(* C15 *)

\* an answer that is no TXT record, or a TXT record of another name
IsIgnored(a) ==
    a.rr # "TXT" \/ (a.name # "servers.bind." /\ ScalarDesc(a.name) = None)

\* a scalar answer that does not carry exactly one string, or no number
IsBadScalar(a) ==
    /\ a.rr = "TXT"
    /\ ScalarDesc(a.name) # None
    /\ (Len(a.txt) # 1 \/ ~IsNumeric(a.txt[1]))

\* a servers.bind. string whose field count is not three, or whose queries or
\* failed field is no number
IsBadString(str) ==
    \/ Len(Fields(str)) # 3
    \/ ~IsNumeric(Fields(str)[2])
    \/ ~IsNumeric(Fields(str)[3])

IsBadServers(a) ==
    /\ a.rr = "TXT"
    /\ a.name = "servers.bind."
    /\ \E i \in 1..Len(a.txt) : IsBadString(a.txt[i])

IsBad(a) == IsBadScalar(a) \/ IsBadServers(a)

\* the samples of an answer that is not bad
GoodSamples(a) ==
    IF IsIgnored(a) THEN <<>>
    ELSE IF a.name = "servers.bind." THEN PairsOf(a)
    ELSE <<ScalarSample(a)>>

FirstBad(as) ==
    CHOOSE k \in 1..Len(as) : IsBad(as[k]) /\ \A j \in 1..(k - 1) : ~IsBad(as[j])

FirstBadString(a) ==
    CHOOSE k \in 1..Len(a.txt) :
        IsBadString(a.txt[k]) /\ \A j \in 1..(k - 1) : ~IsBadString(a.txt[j])

\* the pairs of the strings that precede the first bad string of a bad answer
BeforeBadString(a) ==
    IF IsBadServers(a)
    THEN Concat([i \in 1..(FirstBadString(a) - 1) |-> PairOf(a.txt[i])])
    ELSE <<>>

\* C15: a scalar answer whose text is not numeric or that does not carry
\* exactly one text string, and a servers.bind. string whose field count is
\* not three or whose queries or failed field is not numeric, each make
\* queryDnsmasq return an error (and a reply without any of them does not);
\* what was sent by then are the samples of the answers and strings that
\* precede the offending one: of the offending servers.bind. string neither
\* of its two samples.
C15_DecodeErrors ==
    (AppliedQuery /\ pureIn.err = Nil)
    => IF \E k \in 1..Len(pureIn.answer) : IsBad(pureIn.answer[k])
       THEN /\ pureOut.err \in {"ErrReplies", "ErrSyntax", "ErrServersFields"}
            /\ pureOut.samples =
                 Concat([i \in 1..(FirstBad(pureIn.answer) - 1) |->
                            GoodSamples(pureIn.answer[i])])
                 \o BeforeBadString(pureIn.answer[FirstBad(pureIn.answer)])
       ELSE pureOut.err = Nil

\* the second string of a servers.bind. answer has a failed field that is no
\* number: an error, and the first string's pair is all that was sent
C15_Witness ==
    /\ AppliedQuery
    /\ pureIn.err = Nil
    /\ pureIn.answer = <<Txt("servers.bind.",
                             <<Join(<<Srv1, N10, N2>>, Sp),
                               Join(<<Srv1, N10, NaN1>>, Sp)>>)>>
    /\ pureOut.err = "ErrSyntax"
    /\ Len(pureOut.samples) = 2

-----------------------------------------------------------------------------
(* C16 *)

\* C16: the stats subtask stops at its first error and reports that one
\* error. The error it returned is the error of the last exchange made, be it
\* a transport error or a decode error; every exchange before it succeeded and
\* decoded to its end; and from then on, within the scrape, no message is
\* handed to Exchange, no reply arrives, no stats sample is delivered and the
\* error returned stays what it is.
C16_StopAtFirstError ==
    /\ [](StatsFailed =>
            /\ Len(requests) = Len(got)
            /\ Len(got) >= 1
            /\ \A i \in 1..(Len(got) - 1) :
                  got[i].err = Nil /\ AnswersSamples(got[i].answer).ok
            /\ \/ got[Len(got)].err = retS
               \/ got[Len(got)].err = Nil /\ ~AnswersSamples(got[Len(got)].answer).ok)
    /\ [][ (StatsFailed /\ scrapes' = scrapes)
           => /\ requests' = requests
              /\ got' = got
              /\ StatsPart' = StatsPart
              /\ retS' = retS ]_vars

\* the stats subtask failed at auth.bind., the sixth name, on the second
\* answer of the reply, after the lease subtask; the lease subtask's samples
\* came after the error
C16_Witness ==
    /\ StatsFailed
    /\ Len(got) = 6
    /\ Len(got[6].answer) = 2
    /\ Len(StatsPart) = 6
    /\ Len(sink) > 6
    /\ IsStatsSample(sink[1]) /\ IsLeaseSample(sink[Len(sink)])
    /\ Returned

-----------------------------------------------------------------------------
(* C17 *)

\* C17: a non-TXT answer, and a TXT answer whose name is neither
\* servers.bind. nor one of the six scalar names, delivers no sample, raises
\* no error and does not stop the decoding of the answers that follow it: a
\* reply with such answers yields the samples and the error that the reply
\* yields with these answers taken out.
C17_IgnoredAnswers ==
    (/\ AppliedQuery
     /\ pureIn.err = Nil
     /\ \E i \in 1..Len(pureIn.answer) : IsIgnored(pureIn.answer[i]))
    => /\ pureOut = queryDnsmasq([err |-> Nil,
                                  answer |-> SelectSeq(pureIn.answer,
                                                       LAMBDA a : ~IsIgnored(a))])
       /\ (\A i \in 1..Len(pureIn.answer) : IsIgnored(pureIn.answer[i]))
          => pureOut = [samples |-> <<>>, err |-> Nil]

\* a TXT answer of an unknown name came before a hits.bind. answer, whose
\* sample was sent
C17_Witness ==
    /\ AppliedQuery
    /\ pureIn.err = Nil
    /\ pureIn.answer = <<Txt("version.bind.", <<N7>>), Txt("hits.bind.", <<N0>>)>>
    /\ pureOut.err = Nil
    /\ pureOut.samples = <<[desc |-> "dnsmasq_hits",
                            value |-> [neg |-> FALSE, mag |-> <<0>>],
                            labels |-> <<>>]>>

-----------------------------------------------------------------------------
(* C18 *)

\* a function as the table of its values, each worked out once
Tabulated(f) == f @@ [x \in {} |-> x]

\* what the lease subtask delivers, for the lease files and configurations of
\* the scrapes
LeaseSamplesOf ==
    Tabulated([f \in LeaseFiles |->
                  Tabulated([c \in Configs |-> ExpectedLeasePart(f, c)])])

\* the samples of a reply, for the replies of the scrapes
AnswersSamplesOf ==
    Tabulated([as \in UNION {StatReplies(StatNames[i]) : i \in 1..Len(StatNames)} |->
                  AnswersSamples(as)])

\* the samples of the exchanges g, exchange by exchange, up to the first error
RECURSIVE DecodedInOrder(_)
DecodedInOrder(g) ==
    IF g = <<>> THEN <<>>
    ELSE IF Head(g).err # Nil THEN <<>>
    ELSE LET first == AnswersSamplesOf[Head(g).answer]
         IN  IF first.ok THEN first.samples \o DecodedInOrder(Tail(g))
             ELSE first.samples

\* C18: within a subtask samples are delivered in the order they are decoded.
\* At every moment of a scrape the messages handed to Exchange are for the
\* names cachesize, insertions, evictions, misses, hits, auth, servers, in
\* this order, and the stats samples delivered so far are the first of the
\* samples of the replies taken in that order, answer by answer and string by
\* string; the lease samples delivered so far are the first of: the
\* dnsmasq_leases sample, then the per-lease samples in file order.
C18_DeliveryOrder ==
    /\ Len(requests) <= Len(StatNames)
    /\ \A i \in 1..Len(requests) : requests[i].Question[1].Name = StatNames[i]
    /\ Len(got) <= Len(requests)
    /\ IsPrefix(StatsPart, DecodedInOrder(got))
    /\ IsPrefix(LeasePart, LeaseSamplesOf[file][cfg])
    /\ LeasePart # <<>> => LeasePart[1].desc = "dnsmasq_leases"

\* in the middle of a scrape: the stats subtask is decoding the reply for
\* servers.bind. with one of its two pairs sent, the lease subtask has sent
\* the count and the first of two per-lease samples
C18_Witness ==
    /\ pcS = "decode" /\ qi = 7 /\ Len(in[1].txt) = 2 /\ si = 2
    /\ Len(StatsPart) = 8
    /\ pcL = "leases" /\ Len(activeLeases) = 2 /\ li = 2
    /\ Len(LeasePart) = 2
    /\ activeLeases[1] # activeLeases[2]

-----------------------------------------------------------------------------
(* C19 *)

\* C19: whenever a subtask ends with an error, that error is logged by Collect
\* before the scrape completes: when Collect has returned, the error of the
\* stats subtask is among the errors logged if it failed, and so is the error
\* of the lease subtask if it failed, also when both failed.
C19_EveryErrorLogged ==
    Returned =>
        /\ StatsFailed => \E i \in 1..Len(logged) : logged[i] = retS
        /\ LeaseFailed => \E i \in 1..Len(logged) : logged[i] = retL

-----------------------------------------------------------------------------
(* C20 *)

\* C20: neither subtask waits on the other. In a scrape where the first
\* exchange with the daemon does not return before the lease subtask is done,
\* the lease subtask reads the file, delivers its samples and returns while
\* the stats subtask has no reply yet; in a scrape where the lease file is not
\* read before the stats subtask is done, the stats subtask delivers its
\* samples and returns while the lease subtask has not yet read the file.
C20_NoWaiting ==
    /\ (scrapes % 2 = 1 /\ pcL = "read")
         ~> (scrapes % 2 = 1 /\ pcL = "done" /\ pcS # "done" /\ got = <<>>)
    /\ (scrapes % 2 = 0 /\ pcS = "query")
         ~> (scrapes % 2 = 0 /\ pcS = "done" /\ pcL = "read")

\* the first exchange has not returned, and the lease subtask has read the
\* file, delivered the count and two per-lease samples and returned nil
C20_Witness ==
    /\ pcS = "exchange" /\ got = <<>>
    /\ pcL = "done" /\ retL = Nil
    /\ Len(sink) = 3
    /\ sink = LeaseSamplesOf[file][cfg]

-----------------------------------------------------------------------------
(* C21 *)

\* the daemon has left an exchange of this scrape without an answer
Hung == pcS = "hung"

\* C21: Collect has no deadline of its own. If every exchange with the
\* daemon returns (a reply or an error) and the sink takes every sample,
\* every Collect that was called returns; once an exchange does not return,
\* Collect never returns.
C21_NoDeadline ==
    /\ ([]~Hung) => ((pcMain = "go1") ~> Returned)
    /\ [](Hung => []~Returned)

\* the daemon hangs on the last name, the lease subtask is done, its samples
\* and those of six names are with the sink, and Collect waits
C21_Witness ==
    /\ Hung
    /\ qi = Len(questionBinds)
    /\ pcL = "done" /\ retL = Nil
    /\ pcMain = "wait"
    /\ egWg = 1
    /\ Len(sink) >= 7

-----------------------------------------------------------------------------
(* C22 *)

\* the samples that the inputs of the scrape under way account for: those of
\* its lease file under its configuration, and those of the replies its
\* exchanges have returned
SamplesOfInputs == LeaseSamplesOf[file][cfg] \o DecodedInOrder(got)

\* the errors that the subtasks of the scrape under way have returned
ErrorsOfScrape == {retS, retL} \ {None, Nil}

\* C22: no state passes from scrape to scrape. At every moment each sample
\* the sink holds is one of the samples of the replies, the lease file and
\* the configuration of the scrape under way, and the error of the group is
\* one a subtask of this scrape returned. When Collect has returned, the
\* samples delivered are, as a multiset, exactly those of the inputs of this
\* scrape (so a server or a lease of an earlier scrape that the replies or
\* the file no longer hold has no sample), and what is logged is an error of
\* this scrape, or nothing when neither subtask failed, whatever the scrape
\* before delivered and however it ended.
C22_NoCrossScrapeState ==
    LET inputs == SamplesOfInputs
    IN  /\ {sink[i] : i \in 1..Len(sink)} \subseteq {inputs[j] : j \in 1..Len(inputs)}
        /\ egErr \in {Nil} \cup ErrorsOfScrape
        /\ Returned =>
              /\ SeqToBag(sink) = SeqToBag(inputs)
              /\ IF ErrorsOfScrape = {} THEN logged = <<>>
                 ELSE Len(logged) = 1 /\ logged[1] \in ErrorsOfScrape

\* a second scrape has returned without an error: its lease file is absent
\* and its servers.bind. reply names one server, and the sink holds the count
\* 0, no per-lease sample, the six scalars and the pair of that one server
C22_Witness ==
    /\ scrapes = 2 /\ Returned
    /\ retS = Nil /\ retL = Nil /\ logged = <<>>
    /\ cfg.ExposeLeases
    /\ file.open = "ENOENT"
    /\ LeasePart = <<CountSampleOf(0)>>
    /\ Len(got[7].answer[1].txt) = 1
    /\ Len(StatsPart) = 8
    /\ \A i \in 1..Len(sink) : sink[i].labels \in {<<>>, <<Srv1>>}

-----------------------------------------------------------------------------
(* C23 *)

\* a step that delivers a sample to the sink
Sends == Len(sink') = Len(sink) + 1 /\ SubSeq(sink', 1, Len(sink)) = sink

\* C23: no sample is delivered after Collect has returned. In every
\* interleaving of the two subtasks, a step that delivers a sample is taken
\* while Collect has started the stats subtask and has not returned, also
\* when a subtask has failed already; and once Collect has returned neither
\* subtask is at a place from which it could still send.
C23_NoSendAfterReturn ==
    /\ [][Sends => pcMain \in {"go2", "wait"} /\ pcMain' = pcMain]_vars
    /\ [](Returned => pcS = "done" /\ pcL = "done")

\* Collect waits: the lease subtask has failed, the group holds its error,
\* and the stats subtask, which has delivered samples, is about to send one more
C23_Witness ==
    /\ pcMain = "wait"
    /\ pcL = "done" /\ LeaseFailed /\ egErr = retL
    /\ pcS = "decode" /\ Decoded.kind = "send"
    /\ Len(sink) >= 6

-----------------------------------------------------------------------------
(* C24 *)

\* two samples that a registry takes for the same series
SameSeries(m, n) == m.desc = n.desc /\ m.labels = n.labels

\* C24: within one scrape no two samples delivered to the sink have the same
\* descriptor and the same label values.
C24_NoDuplicateSeries ==
    \A i, j \in 1..Len(sink) : SameSeries(sink[i], sink[j]) => i = j

-----------------------------------------------------------------------------
(* C25 *)

\* the scanner reports a read error on the lease file of the scrape
ScanFails == file.open = Nil /\ file.scanErr

\* C25: when the line scanner reports a read error on the lease file, after
\* no line or after lines that were parsed already, readLeaseFile returns an
\* error and no leases; the lease subtask goes from its read straight to its
\* return, returns that error, and the sink receives neither the
\* dnsmasq_leases sample nor a per-lease sample in that scrape.
C25_ScanError ==
    ScanFails =>
        /\ readLeaseFile(file).err = "ErrScan"
        /\ readLeaseFile(file).leases = None
        /\ pcL \in {"off", "read", "done"}
        /\ pcL = "done" => retL = "ErrScan"
        /\ activeLeases = <<>>
        /\ LeasePart = <<>>

\* the scanner failed after a well-formed line: the lease subtask has
\* returned the error and Collect has returned, with the samples of the stats
\* subtask alone
C25_Witness ==
    /\ ScanFails
    /\ Len(ParsedLeases(file)) = 1
    /\ cfg.ExposeLeases
    /\ Returned
    /\ retL = "ErrScan" /\ retS = Nil
    /\ logged = <<"ErrScan">>
    /\ LeasePart = <<>>
    /\ Len(sink) >= 7

-----------------------------------------------------------------------------
(* C26 *)

AppliedBoth == pcMain = "appliedBoth"

\* every line the scanner yields is well-formed
AllWellFormed(f) == \A i \in 1..Len(f.lines) : WellFormedLine(f.lines[i])

\* the first line that is not well-formed
FirstMalformed(f) ==
    f.lines[CHOOSE i \in 1..Len(f.lines) :
               /\ ~WellFormedLine(f.lines[i])
               /\ \A j \in 1..(i - 1) : WellFormedLine(f.lines[j])]

\* the two functions return the same leases and the same error
SameResult == /\ pureOut.collector.leases = pureOut.legacy.leases
              /\ pureOut.collector.err = pureOut.legacy.err

\* C26, as stated: the legacy readLeaseFile and the collector's return the
\* same lease list and no error for every lease file in which all lines are
\* well-formed and for a missing file; they differ only on a file with a
\* malformed line, where the legacy version returns an error and no leases at
\* the first such line while the collector version skips the line and
\* returns the remaining leases.
C26_Original ==
    AppliedBoth =>
        /\ (pureIn.open = "ENOENT" \/ (pureIn.open = Nil /\ AllWellFormed(pureIn))) =>
              /\ SameResult
              /\ pureOut.collector.err = Nil
        /\ ~SameResult => (pureIn.open = Nil /\ ~AllWellFormed(pureIn))
        /\ (pureIn.open = Nil /\ ~AllWellFormed(pureIn)) =>
              /\ pureOut.legacy.leases = None
              /\ pureOut.legacy.err = parseLease(FirstMalformed(pureIn)).err
              /\ pureOut.collector.err = Nil
              /\ pureOut.collector.leases = ParsedLeases(pureIn)

\* C26, amended: the two functions return the same lease list and no error
\* for a missing file and for every file that is read to its end and whose
\* lines are all well-formed, and the same error and no leases when the file
\* cannot be opened or the scanner fails after well-formed lines only. They
\* differ only on a file with a malformed line: the legacy version returns
\* the parse error of the first such line and no leases; the collector
\* version skips the line and returns the leases of the well-formed lines
\* when the file is read to its end, and the scanner's error and no leases
\* when the scanner fails.
C26_LegacyAndCollector ==
    AppliedBoth =>
        /\ (pureIn.open # Nil \/ AllWellFormed(pureIn)) => SameResult
        /\ ReadsWell(pureIn) /\ (pureIn.open = Nil => AllWellFormed(pureIn)) =>
              /\ pureOut.collector.err = Nil
              /\ pureOut.collector.leases =
                    (IF pureIn.open = Nil THEN ParsedLeases(pureIn) ELSE <<>>)
        /\ (pureIn.open = Nil /\ ~AllWellFormed(pureIn)) =>
              /\ pureOut.legacy.leases = None
              /\ pureOut.legacy.err = parseLease(FirstMalformed(pureIn)).err
              /\ IF pureIn.scanErr
                 THEN /\ pureOut.collector.leases = None
                      /\ pureOut.collector.err = "ErrScan"
                 ELSE /\ pureOut.collector.err = Nil
                      /\ pureOut.collector.leases = ParsedLeases(pureIn)

\* a file read to its end, a well-formed line and then a line whose expiry
\* is no number: the legacy version returns the parse error, the collector
\* version the one lease
C26_Witness ==
    /\ AppliedBoth
    /\ ~pureIn.scanErr
    /\ Len(pureIn.lines) = 2
    /\ WellFormedLine(pureIn.lines[1])
    /\ Len(Fields(pureIn.lines[2])) = LeaseFields /\ ~WellFormedLine(pureIn.lines[2])
    /\ pureOut.legacy.leases = None
    /\ pureOut.legacy.err \notin {Nil, "ErrScan", "ErrLeaseFields"}
    /\ pureOut.collector.err = Nil
    /\ Len(pureOut.collector.leases) = 1

=============================================================================
